---- MODULE Spec2Model ----
(***************************************************************************)
(* The LEA block cipher of lea.go: key schedule (RoundKey), the round      *)
(* functions (EncRound, DecRound) and the block driver (encdec, Encrypt,   *)
(* Decrypt).                                                               *)
(*                                                                         *)
(* A word (type word uint32) is the pair <<hi, lo>> of its two 16-bit      *)
(* halves: TLC's integers are narrower than 2^32.  Shifts and the wrapping *)
(* + and - of uint32 are computed on the halves, | and ^ four bits at a    *)
(* time.                                                                   *)
(*                                                                         *)
(* lea.go holds two revisions of the package: lines 1-145, where RoundKey  *)
(* and encdec panic on invalid input, and lines 147-305, where they do not *)
(* check it.  The variable rev says which revision runs.                   *)
(***************************************************************************)
EXTENDS Integers, Sequences, FiniteSets, TLC

ENCRYPT_MODE == 0

DECRYPT_MODE == 1

WordBits == 32

Half == 65536

\* uint32 of the two 16-bit halves hi and lo.
U32(hi, lo) == <<hi, lo>>

Hi(w) == w[1]

Lo(w) == w[2]

ZeroWord == U32(0, 0)

\* Bit p (0 the least significant) of a word.
BitOf(w, p) == IF p < 16 THEN (Lo(w) \div 2^p) % 2 ELSE (Hi(w) \div 2^(p - 16)) % 2

\* Go's w << n on uint32 (n >= 0): bits shifted out are lost, a count of
\* WordBits or more gives 0.
Shl(w, n) ==
    IF n >= WordBits THEN ZeroWord
    ELSE IF n >= 16 THEN U32((Lo(w) * 2^(n - 16)) % Half, 0)
    ELSE U32(((Hi(w) * 2^n) % Half) + ((Lo(w) * 2^n) \div Half),
             (Lo(w) * 2^n) % Half)

\* Go's w >> n on uint32 (n >= 0): a count of WordBits or more gives 0.
Shr(w, n) ==
    IF n >= WordBits THEN ZeroWord
    ELSE IF n >= 16 THEN U32(0, Hi(w) \div 2^(n - 16))
    ELSE U32(Hi(w) \div 2^n,
             (Lo(w) \div 2^n) + ((Hi(w) % 2^n) * 2^(16 - n)))

\* x | y and x ^ y for 4-bit x and y, as tables indexed from 1.
OrTbl ==
    SubSeq([x \in 1..16 |-> SubSeq([y \in 1..16 |->
        (IF ((x - 1) % 2) + ((y - 1) % 2) > 0 THEN 1 ELSE 0)
      + (IF (((x - 1) \div 2) % 2) + (((y - 1) \div 2) % 2) > 0 THEN 2 ELSE 0)
      + (IF (((x - 1) \div 4) % 2) + (((y - 1) \div 4) % 2) > 0 THEN 4 ELSE 0)
      + (IF ((x - 1) \div 8) + ((y - 1) \div 8) > 0 THEN 8 ELSE 0)],
        1, 16)], 1, 16)

XorTbl ==
    SubSeq([x \in 1..16 |-> SubSeq([y \in 1..16 |->
        ((((x - 1) % 2) + ((y - 1) % 2)) % 2)
      + 2 * (((((x - 1) \div 2) % 2) + (((y - 1) \div 2) % 2)) % 2)
      + 4 * (((((x - 1) \div 4) % 2) + (((y - 1) \div 4) % 2)) % 2)
      + 8 * ((((x - 1) \div 8) + ((y - 1) \div 8)) % 2)],
        1, 16)], 1, 16)

\* A table applied to the four 4-bit digits of two 16-bit numbers.
Bitwise16(tbl, x, y) ==
    tbl[(x % 16) + 1][(y % 16) + 1]
      + 16 * tbl[((x \div 16) % 16) + 1][((y \div 16) % 16) + 1]
      + 256 * tbl[((x \div 256) % 16) + 1][((y \div 256) % 16) + 1]
      + 4096 * tbl[(x \div 4096) + 1][(y \div 4096) + 1]

Or(a, b) == U32(Bitwise16(OrTbl, Hi(a), Hi(b)), Bitwise16(OrTbl, Lo(a), Lo(b)))

Xor(a, b) ==
    U32(Bitwise16(XorTbl, Hi(a), Hi(b)), Bitwise16(XorTbl, Lo(a), Lo(b)))

\* a + b on uint32: the sum modulo 2^32.
Add(a, b) ==
    LET lo == Lo(a) + Lo(b)
        hi == Hi(a) + Hi(b) + (lo \div Half)
    IN  U32(hi % Half, lo % Half)

\* a - b on uint32: the difference modulo 2^32.
Sub(a, b) ==
    LET lo == Half + Lo(a) - Lo(b)
        hi == Half + Hi(a) - Hi(b) - (IF lo < Half THEN 1 ELSE 0)
    IN  U32(hi % Half, lo % Half)

\* byte(w): the low eight bits as a number.
Byte(w) == Lo(w) % 256

ba2w(ba) ==
    Or(Or(Or(Shl(U32(0, ba[4]), 24), Shl(U32(0, ba[3]), 16)),
          Shl(U32(0, ba[2]), 8)),
       U32(0, ba[1]))

\* w2ba with the bytes in the opposite order.
w2baBigEndian(w) ==
    <<Byte(Shr(w, 24)), Byte(Shr(w, 16)), Byte(Shr(w, 8)), Byte(w)>>

w2ba(w) == <<Byte(w), Byte(Shr(w, 8)), Byte(Shr(w, 16)), Byte(Shr(w, 24))>>

\* rol without the reduction of the left shift count.
rolNoMod(w, r) == Or(Shl(w, r), Shr(w, 32 - (r % 32)))

rol(w, r) == Or(Shl(w, r % 32), Shr(w, 32 - (r % 32)))

ror(w, r) == Or(Shr(w, r % 32), Shl(w, 32 - (r % 32)))

delta ==
    << U32(\Hc3ef, \He9db), U32(\H4462, \H6b02), U32(\H79e2, \H7c8a),
       U32(\H78df, \H30ec), U32(\H715e, \Ha49e), U32(\Hc785, \Hda0a),
       U32(\He04e, \Hf22a), U32(\He5c4, \H0957) >>

EncRound(x, rk) ==
    << rol(Add(Xor(x[1], rk[1]), Xor(x[2], rk[2])), 9),
       ror(Add(Xor(x[2], rk[3]), Xor(x[3], rk[4])), 5),
       ror(Add(Xor(x[3], rk[5]), Xor(x[4], rk[6])), 3),
       x[1] >>

\* DecRound with the rotation counts of t2 and t3 exchanged.
DecRoundSwapped(x, rk) ==
    LET t0 == x[4]
        t1 == Xor(Sub(ror(x[1], 9), Xor(t0, rk[1])), rk[2])
        t2 == Xor(Sub(rol(x[2], 3), Xor(t1, rk[3])), rk[4])
        t3 == Xor(Sub(rol(x[3], 5), Xor(t2, rk[5])), rk[6])
    IN  <<t0, t1, t2, t3>>

DecRound(x, rk) ==
    LET t0 == x[4]
        t1 == Xor(Sub(ror(x[1], 9), Xor(t0, rk[1])), rk[2])
        t2 == Xor(Sub(rol(x[2], 5), Xor(t1, rk[3])), rk[4])
        t3 == Xor(Sub(rol(x[3], 3), Xor(t2, rk[5])), rk[6])
    IN  <<t0, t1, t2, t3>>


(***************************************************************************)
(* RoundKey: the key schedule.                                             *)
(***************************************************************************)

\* NrOf with 24 rounds for a 24-byte key.
NrOfSame(len) ==
    CASE len = 16 -> 24
      [] len = 24 -> 24
      [] len = 32 -> 32
      [] OTHER -> 0

\* The switch on len(K) that sets Nr; the unchecked revision has no default
\* case and leaves Nr at its zero value.
NrOf(len) ==
    CASE len = 16 -> 24
      [] len = 24 -> 28
      [] len = 32 -> 32
      [] OTHER -> 0

ValidKeyLen(len) == len \in {16, 24, 32}

ValidMode(m) == m = ENCRYPT_MODE \/ m = DECRYPT_MODE

\* The loop that loads the key into T, four bytes per word.
LoadKey(key) ==
    SubSeq([j \in 1..(Len(key) \div 4) |->
               ba2w(SubSeq(key, 4 * (j - 1) + 1, 4 * j))],
           1, Len(key) \div 4)

ZeroRK == <<ZeroWord, ZeroWord, ZeroWord, ZeroWord, ZeroWord, ZeroWord>>

\* rkiOf that stores forward in both modes.
rkiOfForward(m, nr, ii) == IF m = ENCRYPT_MODE \/ m = DECRYPT_MODE THEN ii ELSE 0

\* The switch on mode that picks the schedule position of round ii; with a
\* mode that matches no case rki keeps its zero value.
rkiOf(m, nr, ii) ==
    CASE m = ENCRYPT_MODE -> ii
      [] m = DECRYPT_MODE -> nr - ii - 1
      [] OTHER -> 0

\* One assignment T[j] = rol(T[j]+rol(delta[d], r), s), indices from 0.
Assign(TT, j, d, r, s) ==
    [TT EXCEPT ![j + 1] = rol(Add(TT[j + 1], rol(delta[d + 1], r)), s)]

\* Round16 whose round key ends with T[2] in place of T[1].
Round16Last(TT, ii) ==
    LET T1 == Assign(TT, 0, ii % 4, ii, 1)
        T2 == Assign(T1, 1, ii % 4, ii + 1, 3)
        T3 == Assign(T2, 2, ii % 4, ii + 2, 6)
        T4 == Assign(T3, 3, ii % 4, ii + 3, 11)
    IN  [T |-> T4, rk |-> <<T4[1], T4[2], T4[3], T4[2], T4[4], T4[3]>>]

\* case 16 of the round loop: the new T and the round key.
Round16(TT, ii) ==
    LET T1 == Assign(TT, 0, ii % 4, ii, 1)
        T2 == Assign(T1, 1, ii % 4, ii + 1, 3)
        T3 == Assign(T2, 2, ii % 4, ii + 2, 6)
        T4 == Assign(T3, 3, ii % 4, ii + 3, 11)
    IN  [T |-> T4, rk |-> <<T4[1], T4[2], T4[3], T4[2], T4[4], T4[2]>>]

\* case 24 of the round loop.
Round24(TT, ii) ==
    LET T1 == Assign(TT, 0, ii % 6, ii, 1)
        T2 == Assign(T1, 1, ii % 6, ii + 1, 3)
        T3 == Assign(T2, 2, ii % 6, ii + 2, 6)
        T4 == Assign(T3, 3, ii % 6, ii + 3, 11)
        T5 == Assign(T4, 4, ii % 6, ii + 4, 13)
        T6 == Assign(T5, 5, ii % 6, ii + 5, 17)
    IN  [T |-> T6, rk |-> <<T6[1], T6[2], T6[3], T6[4], T6[5], T6[6]>>]

\* Round32 whose window does not move: it updates T[0..5] in every round.
Round32Fixed(TT, ii) ==
    LET T1 == Assign(TT, 0, ii % 8, ii, 1)
        T2 == Assign(T1, 1, ii % 8, ii + 1, 3)
        T3 == Assign(T2, 2, ii % 8, ii + 2, 6)
        T4 == Assign(T3, 3, ii % 8, ii + 3, 11)
        T5 == Assign(T4, 4, ii % 8, ii + 4, 13)
        T6 == Assign(T5, 5, ii % 8, ii + 5, 17)
    IN  [T |-> T6, rk |-> <<T6[1], T6[2], T6[3], T6[4], T6[5], T6[6]>>]

\* case 32 of the round loop.
Round32(TT, ii) ==
    LET T1 == Assign(TT, (6 * ii) % 8, ii % 8, ii, 1)
        T2 == Assign(T1, (6 * ii + 1) % 8, ii % 8, ii + 1, 3)
        T3 == Assign(T2, (6 * ii + 2) % 8, ii % 8, ii + 2, 6)
        T4 == Assign(T3, (6 * ii + 3) % 8, ii % 8, ii + 3, 11)
        T5 == Assign(T4, (6 * ii + 4) % 8, ii % 8, ii + 4, 13)
        T6 == Assign(T5, (6 * ii + 5) % 8, ii % 8, ii + 5, 17)
    IN  [T |-> T6,
         rk |-> << T6[((6 * ii) % 8) + 1], T6[((6 * ii + 1) % 8) + 1],
                   T6[((6 * ii + 2) % 8) + 1], T6[((6 * ii + 3) % 8) + 1],
                   T6[((6 * ii + 4) % 8) + 1], T6[((6 * ii + 5) % 8) + 1] >>]

\* The switch on len(K) inside the round loop.
KeyRound(TT, ii, len) ==
    CASE len = 16 -> Round16(TT, ii)
      [] len = 24 -> Round24(TT, ii)
      [] len = 32 -> Round32(TT, ii)

(***************************************************************************)
(* encdec: the block driver.  RK is a slice, shared with the caller, so    *)
(* the driver's result is the output block and RK as the call leaves it.   *)
(***************************************************************************)

\* The loop that unpacks the block into X.
Unpack(from) ==
    SubSeq([j \in 1..4 |-> ba2w(SubSeq(from, 4 * (j - 1) + 1, 4 * j))], 1, 4)

\* The loop that packs X into the output block.
Pack(X) == w2ba(X[1]) \o w2ba(X[2]) \o w2ba(X[3]) \o w2ba(X[4])

\* One iteration of the round loop.  Encrypt and Decrypt are the only
\* callers and pass the two mode constants, so the default case (a panic in
\* one revision, no effect in the other) is never taken.
encdecRound(X, rk, m) ==
    CASE m = ENCRYPT_MODE -> EncRound(X, rk)
      [] m = DECRYPT_MODE -> DecRound(X, rk)
      [] OTHER -> X

RECURSIVE encdecLoopWipe(_, _, _, _)
\* The round loop that zeroes each round key once it has been used.
encdecLoopWipe(X, RK, m, n) ==
    IF n < Len(RK)
    THEN CHOOSE r \in {encdecLoopWipe(Y, [RK EXCEPT ![n + 1] = ZeroRK], m,
                                      n + 1) :
                          Y \in {encdecRound(X, RK[n + 1], m)}} : TRUE
    ELSE [X |-> X, RK |-> RK]

RECURSIVE encdecLoop(_, _, _, _)
\* Rounds n .. len(RK)-1 of the loop (n from 0): X and RK after them.  Y is
\* bound to the value of X after round n (the one element of the set), so
\* that each round is evaluated before the next one starts.
encdecLoop(X, RK, m, n) ==
    IF n < Len(RK)
    THEN CHOOSE r \in {encdecLoop(Y, RK, m, n + 1) :
                          Y \in {encdecRound(X, RK[n + 1], m)}} : TRUE
    ELSE [X |-> X, RK |-> RK]

encdec(from, RK, m) ==
    LET r == encdecLoop(Unpack(from), RK, m, 0)
    IN  [to |-> Pack(r.X), RK |-> r.RK]

Encrypt(P, RK) == encdec(P, RK, ENCRYPT_MODE)

Decrypt(C, RK) == encdec(C, RK, DECRYPT_MODE)

(***************************************************************************)
(* Inputs.                                                                 *)
(***************************************************************************)
MaxKeySeed == 1

MaxBlockSeed == 0

MaxWordSeed == 7

InvalidMode == 2

KeyLens == {10, 16, 24, 32}

\* Seed 0 is the key 00 01 02 ..., seed 1 the key 0f 1e 2d ... of the
\* published LEA-128 vector.
KeyBytes(s, n) ==
    SubSeq([j \in 1..n |-> ((j - 1) * (14 * s + 1) + 15 * s) % 256], 1, n)

\* Seed 0 is the block 10 11 ... 1f.
BlockBytes(s) ==
    SubSeq([j \in 1..16 |-> (16 + 91 * s + (j - 1) * (2 * s + 1)) % 256],
           1, 16)

Keys == {KeyBytes(s, n) : s \in 0..MaxKeySeed, n \in KeyLens}

Blocks == {BlockBytes(s) : s \in 0..MaxBlockSeed}

Modes == {ENCRYPT_MODE, DECRYPT_MODE, InvalidMode}

\* Words for rol, ror and the round functions: 0, 2^32-1, 2^31, 1 and, from
\* seed 4 on, words with mixed bits.
WordAt(n) ==
    CASE n = 0 -> U32(0, 0)
      [] n = 1 -> U32(65535, 65535)
      [] n = 2 -> U32(32768, 0)
      [] n = 3 -> U32(0, 1)
      [] OTHER -> U32((n * 25173 + 13849) % Half, (n * 9301 + 49297) % Half)

StateAt(s) == <<WordAt(s), WordAt(s + 5), WordAt(s + 1), WordAt(s + 7)>>

RoundKeyAt(s) ==
    << WordAt(s + 1), WordAt(s + 4), WordAt(s), WordAt(s + 9), WordAt(s + 2),
       WordAt(s + 6) >>

(***************************************************************************)
(* The program: a caller that builds schedules for one key with RoundKey   *)
(* and then transforms blocks with Encrypt and Decrypt.                    *)
(***************************************************************************)
VARIABLES
    rev,      \* "checked" (lines 1-145) or "unchecked" (lines 147-305)
    K,        \* the caller's key
    pc,       \* "idle", "RoundKey" (in its round loop) or "panic"
    panicMsg, \* the value of the panic
    mode,     \* RoundKey's parameter mode
    Nr,       \* RoundKey's Nr
    T,        \* RoundKey's T
    RK,       \* RoundKey's RK
    i,        \* RoundKey's loop counter i
    writes,   \* how often each position of RK has been assigned
    held,     \* the modes whose schedule RoundKey has returned
    sched,    \* the schedules the caller holds, by mode
    sched0,   \* each schedule as RoundKey returned it
    last,     \* the last Encrypt or Decrypt call
    fw, fr, fmid, fout,   \* a word, a count, ror(fw, fr), rol(fmid, fr)
    fx, frk, fy, fz       \* a state, a round key, EncRound and DecRound of it

vars ==
    << rev, K, pc, panicMsg, mode, Nr, T, RK, i, writes, held, sched, sched0,
       last, fw, fr, fmid, fout, fx, frk, fy, fz >>

cipherVars ==
    << rev, K, pc, panicMsg, mode, Nr, T, RK, i, writes, held, sched, sched0,
       last >>

rotVars == <<fw, fr, fmid, fout>>

roundVars == <<fx, frk, fy, fz>>

NoCall ==
    [op |-> "none", m |-> 0, from |-> <<>>, to |-> <<>>, chained |-> FALSE,
     pfrom |-> <<>>]

RotIdle == fw = ZeroWord /\ fr = 0 /\ fmid = <<>> /\ fout = <<>>

RoundIdle == fx = <<>> /\ frk = <<>> /\ fy = <<>> /\ fz = <<>>

CipherIdle ==
    /\ rev = "checked"
    /\ K = <<>>
    /\ pc = "idle"
    /\ panicMsg = ""
    /\ mode = 0
    /\ Nr = 0
    /\ T = <<>>
    /\ RK = <<>>
    /\ i = 0
    /\ writes = <<>>
    /\ held = {}
    /\ sched = [m \in Modes |-> <<>>]
    /\ sched0 = [m \in Modes |-> <<>>]
    /\ last = NoCall

Init ==
    /\ rev \in {"checked", "unchecked"}
    /\ K \in Keys
    /\ pc = "idle"
    /\ panicMsg = ""
    /\ mode = 0
    /\ Nr = 0
    /\ T = <<>>
    /\ RK = <<>>
    /\ i = 0
    /\ writes = <<>>
    /\ held = {}
    /\ sched = [m \in Modes |-> <<>>]
    /\ sched0 = [m \in Modes |-> <<>>]
    /\ last = NoCall
    /\ RotIdle
    /\ RoundIdle

\* RoundKey up to its round loop, revision with the checks: panics on an
\* invalid mode, then on an invalid key length, before it allocates.
RoundKeyChecked(m) ==
    /\ rev = "checked"
    /\ IF ~ValidMode(m)
       THEN /\ pc' = "panic"
            /\ panicMsg' = "Mode is invalid"
            /\ UNCHANGED <<mode, Nr, T, RK, i, writes>>
       ELSE IF ~ValidKeyLen(Len(K))
       THEN /\ pc' = "panic"
            /\ panicMsg' = "|Key| should 128, 192, or 256 bits."
            /\ UNCHANGED <<mode, Nr, T, RK, i, writes>>
       ELSE /\ pc' = "RoundKey"
            /\ mode' = m
            /\ Nr' = NrOf(Len(K))
            /\ T' = LoadKey(K)
            /\ RK' = [n \in 1..NrOf(Len(K)) |-> ZeroRK]
            /\ i' = 0
            /\ writes' = [n \in 1..NrOf(Len(K)) |-> 0]
            /\ UNCHANGED panicMsg

\* RoundKey up to its round loop, revision without the checks.
RoundKeyUnchecked(m) ==
    /\ rev = "unchecked"
    /\ pc' = "RoundKey"
    /\ mode' = m
    /\ Nr' = NrOf(Len(K))
    /\ T' = LoadKey(K)
    /\ RK' = [n \in 1..NrOf(Len(K)) |-> ZeroRK]
    /\ i' = 0
    /\ writes' = [n \in 1..NrOf(Len(K)) |-> 0]
    /\ UNCHANGED panicMsg

\* The caller calls RoundKey(K, m): once per mode, and every schedule it
\* wants before the first block.
RoundKeyCall(m) ==
    /\ pc = "idle"
    /\ m \notin held
    /\ last.op = "none"
    /\ RoundKeyChecked(m) \/ RoundKeyUnchecked(m)
    /\ UNCHANGED <<rev, K, held, sched, sched0, last, rotVars, roundVars>>

\* One iteration of RoundKey's round loop.
RoundKeyRound ==
    /\ pc = "RoundKey"
    /\ i < Nr
    /\ \E rki \in {rkiOf(mode, Nr, i)}, r \in {KeyRound(T, i, Len(K))} :
           /\ T' = r.T
           /\ RK' = [RK EXCEPT ![rki + 1] = r.rk]
           /\ writes' = [writes EXCEPT ![rki + 1] = @ + 1]
    /\ i' = i + 1
    /\ UNCHANGED <<rev, K, pc, panicMsg, mode, Nr, held, sched, sched0, last,
                   rotVars, roundVars>>

\* RoundKey returns RK to the caller.
RoundKeyReturn ==
    /\ pc = "RoundKey"
    /\ ~(i < Nr)
    /\ pc' = "idle"
    /\ held' = held \cup {mode}
    /\ sched' = [sched EXCEPT ![mode] = RK]
    /\ sched0' = [sched0 EXCEPT ![mode] = RK]
    /\ UNCHANGED <<rev, K, panicMsg, mode, Nr, T, RK, i, writes, last,
                   rotVars, roundVars>>

\* The caller encrypts a block with a schedule RoundKey built for mode m.
EncryptCall(P, m) ==
    /\ pc = "idle"
    /\ m \in held
    /\ ValidMode(m)
    /\ \E r \in {Encrypt(P, sched[m])} :
           /\ last' = [op |-> "Encrypt", m |-> m, from |-> P, to |-> r.to,
                       chained |-> FALSE, pfrom |-> <<>>]
           /\ sched' = [sched EXCEPT ![m] = r.RK]
    /\ UNCHANGED <<rev, K, pc, panicMsg, mode, Nr, T, RK, i, writes, held,
                   sched0, rotVars, roundVars>>

\* The caller decrypts a block with a schedule RoundKey built for mode m.
DecryptCall(C, m) ==
    /\ pc = "idle"
    /\ m \in held
    /\ ValidMode(m)
    /\ \E r \in {Decrypt(C, sched[m])} :
           /\ last' = [op |-> "Decrypt", m |-> m, from |-> C, to |-> r.to,
                       chained |-> FALSE, pfrom |-> <<>>]
           /\ sched' = [sched EXCEPT ![m] = r.RK]
    /\ UNCHANGED <<rev, K, pc, panicMsg, mode, Nr, T, RK, i, writes, held,
                   sched0, rotVars, roundVars>>

\* The caller decrypts, with the schedule built for DECRYPT_MODE, the block
\* that its last call, Encrypt with the schedule built for ENCRYPT_MODE,
\* returned.
DecryptLast ==
    /\ pc = "idle"
    /\ DECRYPT_MODE \in held
    /\ last.op = "Encrypt"
    /\ last.m = ENCRYPT_MODE
    /\ \E r \in {Decrypt(last.to, sched[DECRYPT_MODE])} :
           /\ last' = [op |-> "Decrypt", m |-> DECRYPT_MODE,
                       from |-> last.to, to |-> r.to, chained |-> TRUE,
                       pfrom |-> last.from]
           /\ sched' = [sched EXCEPT ![DECRYPT_MODE] = r.RK]
    /\ UNCHANGED <<rev, K, pc, panicMsg, mode, Nr, T, RK, i, writes, held,
                   sched0, rotVars, roundVars>>

Next ==
    \/ \E m \in Modes : RoundKeyCall(m)
    \/ RoundKeyRound
    \/ RoundKeyReturn
    \/ \E P \in Blocks, m \in Modes : EncryptCall(P, m)
    \/ \E C \in Blocks, m \in Modes : DecryptCall(C, m)
    \/ DecryptLast

Spec == Init /\ [][Next]_vars

(***************************************************************************)
(* rol and ror applied to a word: ror(fw, fr), then rol of the result.     *)
(***************************************************************************)
InitRot ==
    /\ CipherIdle
    /\ RoundIdle
    /\ fw \in {WordAt(n) : n \in 0..MaxWordSeed}
    /\ fr \in 0..63
    /\ fmid = <<>>
    /\ fout = <<>>

RorStep ==
    /\ fmid = <<>>
    /\ fmid' = ror(fw, fr)
    /\ UNCHANGED <<cipherVars, roundVars, fw, fr, fout>>

RolStep ==
    /\ fmid # <<>>
    /\ fout = <<>>
    /\ fout' = rol(fmid, fr)
    /\ UNCHANGED <<cipherVars, roundVars, fw, fr, fmid>>

NextRot == RorStep \/ RolStep

SpecRot == InitRot /\ [][NextRot]_vars

(***************************************************************************)
(* The round functions applied to a state: EncRound(fx, frk), then         *)
(* DecRound of the result.                                                 *)
(***************************************************************************)
InitRound ==
    /\ CipherIdle
    /\ RotIdle
    /\ fx \in {StateAt(s) : s \in 0..MaxWordSeed}
    /\ frk \in {RoundKeyAt(s) : s \in 0..(2 * MaxWordSeed)}
    /\ fy = <<>>
    /\ fz = <<>>

EncRoundStep ==
    /\ fy = <<>>
    /\ fy' = EncRound(fx, frk)
    /\ UNCHANGED <<cipherVars, rotVars, fx, frk, fz>>

DecRoundStep ==
    /\ fy # <<>>
    /\ fz = <<>>
    /\ fz' = DecRound(fy, frk)
    /\ UNCHANGED <<cipherVars, rotVars, fx, frk, fy>>

NextRound == EncRoundStep \/ DecRoundStep

SpecRound == InitRound /\ [][NextRound]_vars

(***************************************************************************)
(* The properties.                                                         *)
(***************************************************************************)

\* C1: Round-trip.  For a key of 16, 24 or 32 bytes, Decrypt with the
\* DECRYPT_MODE schedule of the block that Encrypt with the ENCRYPT_MODE
\* schedule returned for P gives P.
RoundTrip ==
    (ValidKeyLen(Len(K)) /\ last.op = "Decrypt" /\ last.chained)
        => last.to = last.pfrom

RoundTripWitness ==
    /\ Len(K) = 32
    /\ last.op = "Decrypt"
    /\ last.chained
    /\ last.to = last.pfrom
    /\ last.from # last.pfrom

\* C2: Invalid key rejection.  RoundKey with a key of another length than 16,
\* 24 or 32 bytes returns an error to its caller: it does not panic on the
\* key and it does not go on to build or return a schedule.
InvalidKeyRejected ==
    ~ValidKeyLen(Len(K))
        => /\ panicMsg # "|Key| should 128, 192, or 256 bits."
           /\ pc # "RoundKey"
           /\ held = {}

\* C3: Invalid direction rejection.  RoundKey with a mode that is neither
\* ENCRYPT_MODE nor DECRYPT_MODE returns an error to its caller: it does not
\* panic on the mode and it does not go on to build or return a schedule.
InvalidDirectionRejected ==
    /\ panicMsg # "Mode is invalid"
    /\ ~(pc = "RoundKey" /\ ~ValidMode(mode))
    /\ \A m \in held : ValidMode(m)

\* C4: Schedule length.  For either mode the schedule RoundKey returns has 24
\* round keys for a 16-byte key, 28 for a 24-byte key, 32 for a 32-byte key,
\* and every round key has 6 words.
ScheduleLength ==
    \A m \in held :
        (ValidMode(m) /\ ValidKeyLen(Len(K)))
            => /\ Len(sched[m]) = (CASE Len(K) = 16 -> 24
                                     [] Len(K) = 24 -> 28
                                     [] Len(K) = 32 -> 32)
               /\ \A n \in 1..Len(sched[m]) : Len(sched[m][n]) = 6

ScheduleLengthWitness ==
    /\ Len(K) = 24
    /\ {ENCRYPT_MODE, DECRYPT_MODE} \subseteq held
    /\ Len(sched[ENCRYPT_MODE]) = 28
    /\ Len(sched[DECRYPT_MODE]) = 28

\* C5: Reversed decrypt schedule.  Position n of the DECRYPT_MODE schedule is
\* position Nr-1-n of the ENCRYPT_MODE schedule of the same key; in
\* DECRYPT_MODE the round keys are computed in the same order as in
\* ENCRYPT_MODE (the key of round j is stored at Nr-1-j); and after i rounds
\* exactly the positions of rounds 0..i-1 have been written, each once.
ReversedDecryptSchedule ==
    /\ ({ENCRYPT_MODE, DECRYPT_MODE} \subseteq held /\ ValidKeyLen(Len(K)))
          => \A n \in 0..(NrOf(Len(K)) - 1) :
                 sched[DECRYPT_MODE][n + 1]
                     = sched[ENCRYPT_MODE][(NrOf(Len(K)) - 1 - n) + 1]
    /\ (pc = "RoundKey" /\ mode = DECRYPT_MODE /\ ENCRYPT_MODE \in held)
          => \A j \in 0..(i - 1) :
                 RK[(Nr - 1 - j) + 1] = sched[ENCRYPT_MODE][j + 1]
    /\ (writes # <<>> /\ mode = ENCRYPT_MODE)
          => \A n \in 0..(Nr - 1) :
                 writes[n + 1] = IF n < i THEN 1 ELSE 0
    /\ (writes # <<>> /\ mode = DECRYPT_MODE)
          => \A n \in 0..(Nr - 1) :
                 writes[n + 1] = IF n >= Nr - i THEN 1 ELSE 0

ReversedDecryptScheduleWitness ==
    /\ Len(K) = 24
    /\ {ENCRYPT_MODE, DECRYPT_MODE} \subseteq held
    /\ sched[DECRYPT_MODE][1] = sched[ENCRYPT_MODE][28]
    /\ sched[DECRYPT_MODE][1] # sched[ENCRYPT_MODE][1]
    /\ \A n \in 1..28 : writes[n] = 1

\* C6: 128-bit key redundancy.  In every round key built from a 16-byte key,
\* in the schedule under construction and in the schedules returned, the
\* words at positions 1, 3 and 5 are the same word.
Redundancy128 ==
    Len(K) = 16
        => /\ \A n \in 1..Len(RK) :
                  RK[n][2] = RK[n][4] /\ RK[n][4] = RK[n][6]
           /\ \A m \in held : \A n \in 1..Len(sched[m]) :
                  sched[m][n][2] = sched[m][n][4]
                      /\ sched[m][n][4] = sched[m][n][6]

Redundancy128Witness ==
    /\ Len(K) = 16
    /\ DECRYPT_MODE \in held
    /\ sched[DECRYPT_MODE][1][2] = sched[DECRYPT_MODE][1][6]
    /\ sched[DECRYPT_MODE][1][2] # sched[DECRYPT_MODE][1][1]
    /\ sched[DECRYPT_MODE][1][2] # ZeroWord

\* C7: Rotation inverse.  For r in 0..63, ror(w, r) is w rotated right and
\* rol(v, r) is v rotated left by r mod 32 bits (bits leaving one end enter
\* at the other), and rol(ror(w, r), r) = w.
RotationInverse ==
    /\ fmid # <<>>
          => \A p \in 0..31 :
                 BitOf(fmid, p) = BitOf(fw, (p + (fr % 32)) % 32)
    /\ fout # <<>>
          => /\ \A p \in 0..31 :
                    BitOf(fout, (p + (fr % 32)) % 32) = BitOf(fmid, p)
             /\ fout = fw

RotationInverseWitness ==
    /\ fr = 32
    /\ fw = WordAt(5)
    /\ fmid = fw
    /\ fout = fw

\* C8: Round inverse.  DecRound(EncRound(x, rk), rk) = x.
RoundInverse == fz # <<>> => fz = fx

RoundInverseWitness ==
    /\ fx = StateAt(1)
    /\ frk = RoundKeyAt(4)
    /\ fy # <<>>
    /\ fy # fx
    /\ fz = fx

Shifts == <<1, 3, 6, 11, 13, 17>>

\* The number of updates of a round and the word the k-th of them targets.
Updates(len) == IF len = 16 THEN 4 ELSE 6

Target(len, ii, k) == IF len = 32 THEN (6 * ii + k) % 8 ELSE k

\* T after round ii as the recurrence gives it: the k-th update sets its
\* target T[j] to rol(T[j] + rol(delta[ii mod m], ii + k), s_k), m = len/4,
\* and the other words stay.
Recurrence(TT, ii, len) ==
    [j \in 1..Len(TT) |->
        IF \E k \in 0..(Updates(len) - 1) : Target(len, ii, k) = j - 1
        THEN LET k == CHOOSE k \in 0..(Updates(len) - 1) :
                          Target(len, ii, k) = j - 1
             IN  rol(Add(TT[j], rol(delta[(ii % (len \div 4)) + 1], ii + k)),
                     Shifts[k + 1])
        ELSE TT[j]]

\* C9: Key-expansion recurrence.  Every round of RoundKey takes T to what
\* the recurrence gives; for a 32-byte key the round key it stores is the
\* six updated words T[(6i+k) mod 8], k = 0..5, in that order.
KeyExpansionRecurrence ==
    [][(pc = "RoundKey" /\ i' = i + 1)
          => /\ T' = Recurrence(T, i, Len(K))
             /\ Len(K) = 32
                   => RK'[rkiOf(mode, Nr, i) + 1]
                          = [k \in 1..6 |-> T'[Target(32, i, k - 1) + 1]]]_vars

KeyExpansionRecurrenceWitness ==
    /\ Len(K) = 32
    /\ pc = "RoundKey"
    /\ mode = ENCRYPT_MODE
    /\ i = 6
    /\ RK[6] = <<T[7], T[8], T[1], T[2], T[3], T[4]>>
    /\ T # LoadKey(K)

\* C10: Schedule immutability.  Every schedule the caller holds is as
\* RoundKey returned it, whatever Encrypt and Decrypt calls were made on it,
\* and the block a call returned is the one that the call gives on the block
\* and the schedule as returned.
ScheduleImmutable ==
    /\ \A m \in held : sched[m] = sched0[m]
    /\ last.op = "Encrypt" => last.to = Encrypt(last.from, sched0[last.m]).to
    /\ last.op = "Decrypt" => last.to = Decrypt(last.from, sched0[last.m]).to

ScheduleImmutableWitness ==
    /\ Len(K) = 16
    /\ last.op = "Decrypt"
    /\ ~last.chained
    /\ last.m = ENCRYPT_MODE
    /\ last.to # last.from
    /\ sched[ENCRYPT_MODE] = sched0[ENCRYPT_MODE]
    /\ Len(sched[ENCRYPT_MODE]) = 24

====
